---- MODULE Spec2Model ----
(***************************************************************************)
(* Model of the code-switching report of jiwer_cs (src/cli.py,             *)
(* src/utils.py): align_word_output expands the chunk-level alignment of a *)
(* corpus into two token streams, and                                      *)
(* calculate_language_measures_with_detailed_tables walks the two streams  *)
(* pairwise and accumulates the per-language counters, from which the      *)
(* per-language WER / CER and the distribution tables are derived.         *)
(*                                                                         *)
(* A token (a Python str) is a sequence of Unicode code points; a sentence *)
(* is a sequence of tokens; an aligned entry is the pair <<token, tag>>.   *)
(* A float is kept bit for bit: its 53-bit significand and its exponent.  *)
(***************************************************************************)
EXTENDS Integers, Sequences, FiniteSets, TLC

(***************************************************************************)
(* Bounds of the explored inputs.                                          *)
(***************************************************************************)
\* largest number of sentences of a corpus
MaxSent == 2
\* largest number of alignment units (single operations) of a whole corpus
MaxUnits == 2

(***************************************************************************)
(* Generic helpers.                                                        *)
(***************************************************************************)
Min(a, b) == IF a < b THEN a ELSE b

Max(a, b) == IF a > b THEN a ELSE b

RECURSIVE SumSeq(_)
SumSeq(s) == IF s = <<>> THEN 0 ELSE Head(s) + SumSeq(Tail(s))

RECURSIVE Flatten(_)
Flatten(ss) == IF ss = <<>> THEN <<>> ELSE Head(ss) \o Flatten(Tail(ss))

SeqsUpTo(S, n) == UNION {[1..k -> S] : k \in 0..n}

\* Python's range(a, b), as the sequence of its values
Range(a, b) == [k \in 1..(IF b > a THEN b - a ELSE 0) |-> a + k - 1]

\* Python's list[i] is defined for -len <= i < len (a negative index counts
\* from the end); any other index raises IndexError
IndexOk(list, i) == -Len(list) <= i /\ i < Len(list)

Index(list, i) == IF i >= 0 THEN list[i + 1] ELSE list[Len(list) + i + 1]

(***************************************************************************)
(* Tokens.                                                                 *)
(***************************************************************************)
\* the str "placeholder" that align_word_output writes opposite a deletion or
\* an insertion, and that the accumulator compares reference words with
PLACEHOLDER == <<112, 108, 97, 99, 101, 104, 111, 108, 100, 101, 114>>

SUB_TOKEN == "substitute"

DEL_TOKEN == "delete"

INS_TOKEN == "insert"

\* utils.is_arabic: some code point of the text lies in one of the three
\* Arabic blocks U+0600-U+06FF, U+0750-U+077F, U+08A0-U+08FF
is_arabic(text) ==
    \E i \in 1..Len(text) :
        \/ (1536 <= text[i] /\ text[i] <= 1791)
        \/ (1872 <= text[i] /\ text[i] <= 1919)
        \/ (2208 <= text[i] /\ text[i] <= 2303)

\* sample tokens: "cat", "car", two Arabic words of 2 and 3 letters
TokCat == <<99, 97, 116>>

TokCar == <<99, 97, 114>>

TokMar == <<1605, 1585>>

TokMarh == <<1605, 1585, 1581>>

(***************************************************************************)
(* align_word_output                                                       *)
(***************************************************************************)
\* ExpandChunk with the two sides of a deletion exchanged: the placeholder
\* goes to the reference stream and the deleted token to the hypothesis stream
ExpandChunkDeleteSwapped(ref, hyp, chunk) ==
    LET rr == Range(chunk.ref_start_idx, chunk.ref_end_idx)
        hr == Range(chunk.hyp_start_idx, chunk.hyp_end_idx)
        rok == \A k \in 1..Len(rr) : IndexOk(ref, rr[k])
        hok == \A k \in 1..Len(hr) : IndexOk(hyp, hr[k])
    IN  IF chunk.type \in {"equal", "substitute"}
        THEN [ok |-> rok /\ hok,
              ref |-> IF rok THEN [k \in 1..Len(rr) |-> <<Index(ref, rr[k]), chunk.type>>] ELSE <<>>,
              hyp |-> IF hok THEN [k \in 1..Len(hr) |-> <<Index(hyp, hr[k]), chunk.type>>] ELSE <<>>]
        ELSE IF chunk.type = "delete"
        THEN [ok |-> rok,
              ref |-> [k \in 1..Len(rr) |-> <<PLACEHOLDER, DEL_TOKEN>>],
              hyp |-> IF rok THEN [k \in 1..Len(rr) |-> <<Index(ref, rr[k]), "delete">>] ELSE <<>>]
        ELSE IF chunk.type = "insert"
        THEN [ok |-> hok,
              ref |-> [k \in 1..Len(hr) |-> <<PLACEHOLDER, INS_TOKEN>>],
              hyp |-> IF hok THEN [k \in 1..Len(hr) |-> <<Index(hyp, hr[k]), "insert">>] ELSE <<>>]
        ELSE [ok |-> TRUE, ref |-> <<>>, hyp |-> <<>>]

\* the entries one chunk appends to the two streams; ok is FALSE when a token
\* index raises IndexError
ExpandChunk(ref, hyp, chunk) ==
    LET rr == Range(chunk.ref_start_idx, chunk.ref_end_idx)
        hr == Range(chunk.hyp_start_idx, chunk.hyp_end_idx)
        rok == \A k \in 1..Len(rr) : IndexOk(ref, rr[k])
        hok == \A k \in 1..Len(hr) : IndexOk(hyp, hr[k])
    IN  IF chunk.type = "equal"
        THEN [ok |-> rok /\ hok,
              ref |-> IF rok THEN [k \in 1..Len(rr) |-> <<Index(ref, rr[k]), "equal">>] ELSE <<>>,
              hyp |-> IF hok THEN [k \in 1..Len(hr) |-> <<Index(hyp, hr[k]), "equal">>] ELSE <<>>]
        ELSE IF chunk.type = "substitute"
        THEN [ok |-> rok /\ hok,
              ref |-> IF rok THEN [k \in 1..Len(rr) |-> <<Index(ref, rr[k]), SUB_TOKEN>>] ELSE <<>>,
              hyp |-> IF hok THEN [k \in 1..Len(hr) |-> <<Index(hyp, hr[k]), SUB_TOKEN>>] ELSE <<>>]
        ELSE IF chunk.type = "delete"
        THEN [ok |-> rok,
              ref |-> IF rok THEN [k \in 1..Len(rr) |-> <<Index(ref, rr[k]), "delete">>] ELSE <<>>,
              hyp |-> [k \in 1..Len(rr) |-> <<PLACEHOLDER, DEL_TOKEN>>]]
        ELSE IF chunk.type = "insert"
        THEN [ok |-> hok,
              ref |-> [k \in 1..Len(hr) |-> <<PLACEHOLDER, INS_TOKEN>>],
              hyp |-> IF hok THEN [k \in 1..Len(hr) |-> <<Index(hyp, hr[k]), "insert">>] ELSE <<>>]
        ELSE [ok |-> TRUE, ref |-> <<>>, hyp |-> <<>>]

\* the inner loop over the chunks of one sentence
RECURSIVE AlignSentence(_, _, _)
AlignSentence(ref, hyp, alignment) ==
    IF alignment = <<>>
    THEN [ok |-> TRUE, ref |-> <<>>, hyp |-> <<>>]
    ELSE LET c == ExpandChunk(ref, hyp, Head(alignment))
             rest == AlignSentence(ref, hyp, Tail(alignment))
         IN  [ok |-> c.ok /\ rest.ok,
              ref |-> c.ref \o rest.ref,
              hyp |-> c.hyp \o rest.hyp]

\* the outer loop: zip stops at the shortest of the three sequences; an
\* IndexError anywhere leaves the function without a return value
align_word_output(refs, hyps, aligns) ==
    LET n == Min(Len(refs), Min(Len(hyps), Len(aligns)))
        per == [i \in 1..n |-> AlignSentence(refs[i], hyps[i], aligns[i])]
    IN  [ok |-> \A i \in 1..n : per[i].ok,
         aligned_references |-> [i \in 1..n |-> per[i].ref],
         aligned_hypotheses |-> [i \in 1..n |-> per[i].hyp]]

(***************************************************************************)
(* calculate_language_measures_with_detailed_tables: the counters          *)
(***************************************************************************)
NoErrors == [sub |-> 0, del |-> 0, ins |-> 0]

\* the counters as the function declares them before its loop
ZeroCounters ==
    [arabic_errors |-> NoErrors,
     english_errors |-> NoErrors,
     arabic_char_errors |-> NoErrors,
     english_char_errors |-> NoErrors,
     substitutions |-> [ar_ar |-> 0, ar_en |-> 0, en_en |-> 0, en_ar |-> 0],
     deletions |-> [ar |-> 0, en |-> 0],
     insertions |-> [ar |-> 0, en |-> 0],
     arabic_total_ref |-> 0,
     english_total_ref |-> 0,
     arabic_total_ch_ref |-> 0,
     english_total_ch_ref |-> 0,
     arabic_refs |-> <<>>,
     arabic_hyps |-> <<>>,
     english_refs |-> <<>>,
     english_hyps |-> <<>>]

Lang(word) == IF is_arabic(word) THEN "ar" ELSE "en"

\* the key f"{ref_lang}_{hyp_lang}" of the substitution breakdown
SubKey(ref_lang, hyp_lang) ==
    IF ref_lang = "ar"
    THEN (IF hyp_lang = "ar" THEN "ar_ar" ELSE "ar_en")
    ELSE (IF hyp_lang = "ar" THEN "en_ar" ELSE "en_en")

\* CountReference without the test for the placeholder
CountReferenceNoSkip(c, ref_p, hyp_p) ==
    LET ref_word == ref_p[1]
        paired == IF hyp_p[2] # "insert" THEN hyp_p[1] ELSE <<>>
    IN  IF is_arabic(ref_word)
        THEN [c EXCEPT !.arabic_total_ref = @ + 1,
                       !.arabic_total_ch_ref = @ + Len(ref_word),
                       !.arabic_refs = Append(@, ref_word),
                       !.arabic_hyps = Append(@, paired)]
        ELSE [c EXCEPT !.english_total_ref = @ + 1,
                       !.english_total_ch_ref = @ + Len(ref_word),
                       !.english_refs = Append(@, ref_word),
                       !.english_hyps = Append(@, paired)]

\* the reference word and character totals and the per-language word lists
CountReference(c, ref_p, hyp_p) ==
    LET ref_word == ref_p[1]
        hyp_word == hyp_p[1]
        hyp_status == hyp_p[2]
        paired == IF hyp_status # "insert" THEN hyp_word ELSE <<>>
    IN  IF ref_word # PLACEHOLDER
        THEN IF is_arabic(ref_word)
             THEN [c EXCEPT !.arabic_total_ref = @ + 1,
                            !.arabic_total_ch_ref = @ + Len(ref_word),
                            !.arabic_refs = Append(@, ref_word),
                            !.arabic_hyps = Append(@, paired)]
             ELSE [c EXCEPT !.english_total_ref = @ + 1,
                            !.english_total_ch_ref = @ + Len(ref_word),
                            !.english_refs = Append(@, ref_word),
                            !.english_hyps = Append(@, paired)]
        ELSE c

\* CharLoop with the two tests for the exhausted word exchanged
RECURSIVE CharLoopExchanged(_, _, _, _)
CharLoopExchanged(ref_word, hyp_word, i, e) ==
    IF i >= Max(Len(ref_word), Len(hyp_word))
    THEN e
    ELSE LET r_char == IF i < Len(ref_word) THEN <<ref_word[i + 1]>> ELSE <<>>
             h_char == IF i < Len(hyp_word) THEN <<hyp_word[i + 1]>> ELSE <<>>
             e1 == IF r_char # h_char
                   THEN IF h_char = <<>>
                        THEN [e EXCEPT !.ins = @ + 1]
                        ELSE IF r_char = <<>>
                        THEN [e EXCEPT !.del = @ + 1]
                        ELSE [e EXCEPT !.sub = @ + 1]
                   ELSE e
         IN  CharLoopExchanged(ref_word, hyp_word, i + 1, e1)

\* the positional character loop of a substitution, from index i on: e is the
\* character error counter of the reference word's language
RECURSIVE CharLoop(_, _, _, _)
CharLoop(ref_word, hyp_word, i, e) ==
    IF i >= Max(Len(ref_word), Len(hyp_word))
    THEN e
    ELSE LET r_char == IF i < Len(ref_word) THEN <<ref_word[i + 1]>> ELSE <<>>
             h_char == IF i < Len(hyp_word) THEN <<hyp_word[i + 1]>> ELSE <<>>
             e1 == IF r_char # h_char
                   THEN IF r_char = <<>>
                        THEN [e EXCEPT !.ins = @ + 1]
                        ELSE IF h_char = <<>>
                        THEN [e EXCEPT !.del = @ + 1]
                        ELSE [e EXCEPT !.sub = @ + 1]
                   ELSE e
         IN  CharLoop(ref_word, hyp_word, i + 1, e1)

\* the branch ref_status == "substitute"
ProcessSubstitute(c, ref_p, hyp_p) ==
    LET ref_word == ref_p[1]
        hyp_word == hyp_p[1]
        ref_lang == Lang(ref_word)
        hyp_lang == Lang(hyp_word)
        c1 == IF ref_lang = "ar"
              THEN [c EXCEPT !.arabic_errors.sub = @ + 1]
              ELSE [c EXCEPT !.english_errors.sub = @ + 1]
        c2 == [c1 EXCEPT !.substitutions[SubKey(ref_lang, hyp_lang)] = @ + 1]
    IN  IF ref_lang = "ar"
        THEN [c2 EXCEPT !.arabic_char_errors = CharLoop(ref_word, hyp_word, 0, @)]
        ELSE [c2 EXCEPT !.english_char_errors = CharLoop(ref_word, hyp_word, 0, @)]

\* ProcessDelete with the character counter assigned instead of increased
ProcessDeleteAssigned(c, ref_p, hyp_p) ==
    LET ref_word == ref_p[1]
        ref_lang == Lang(ref_word)
        c1 == [c EXCEPT !.deletions[ref_lang] = @ + 1]
    IN  IF ref_lang = "ar"
        THEN [c1 EXCEPT !.arabic_errors.del = @ + 1,
                        !.arabic_char_errors.del = Len(ref_word)]
        ELSE [c1 EXCEPT !.english_errors.del = @ + 1,
                        !.english_char_errors.del = Len(ref_word)]

\* the branch ref_status == "delete"
ProcessDelete(c, ref_p, hyp_p) ==
    LET ref_word == ref_p[1]
        ref_lang == Lang(ref_word)
        c1 == [c EXCEPT !.deletions[ref_lang] = @ + 1]
    IN  IF ref_lang = "ar"
        THEN [c1 EXCEPT !.arabic_errors.del = @ + 1,
                        !.arabic_char_errors.del = @ + Len(ref_word)]
        ELSE [c1 EXCEPT !.english_errors.del = @ + 1,
                        !.english_char_errors.del = @ + Len(ref_word)]

\* the branch hyp_status == "insert"
ProcessInsert(c, ref_p, hyp_p) ==
    LET hyp_lang == Lang(hyp_p[1])
    IN  [c EXCEPT !.insertions[hyp_lang] = @ + 1]

\* the if / elif / elif chain on the two tags
ProcessErrors(c, ref_p, hyp_p) ==
    IF ref_p[2] = "substitute" THEN ProcessSubstitute(c, ref_p, hyp_p)
    ELSE IF ref_p[2] = "delete" THEN ProcessDelete(c, ref_p, hyp_p)
    ELSE IF hyp_p[2] = "insert" THEN ProcessInsert(c, ref_p, hyp_p)
    ELSE c

\* one iteration of the inner loop
ProcessPosition(c, ref_p, hyp_p) ==
    ProcessErrors(CountReference(c, ref_p, hyp_p), ref_p, hyp_p)

\* zip of two sequences: as long as the shorter one
Zip(a, b) == [j \in 1..Min(Len(a), Len(b)) |-> [ref_p |-> a[j], hyp_p |-> b[j]]]

\* the positions the two nested zip loops visit, in order
Pairs(aligned_refs, aligned_hyps) ==
    Flatten([i \in 1..Min(Len(aligned_refs), Len(aligned_hyps)) |->
                Zip(aligned_refs[i], aligned_hyps[i])])

\* the whole loop, from the counters c
RECURSIVE Accumulate(_, _)
Accumulate(c, pairs) ==
    IF pairs = <<>>
    THEN c
    ELSE Accumulate(ProcessPosition(c, Head(pairs).ref_p, Head(pairs).hyp_p), Tail(pairs))

(***************************************************************************)
(* calculate_language_measures_with_detailed_tables: the derived values    *)
(***************************************************************************)
(* Floats.  A positive float is its 53-bit significand m, written as three *)
(* limbs of 18, 18 and 17 bits, the least significant first, and the        *)
(* exponent e of its leading bit: the value is                               *)
(* (m[3] * 2^36 + m[2] * 2^18 + m[1]) * 2^(e - 52).  Every operation rounds  *)
(* to the nearest float, a tie to the even significand, as the IEEE 754      *)
(* double arithmetic of Python does.                                         *)
ZeroFloat == [m |-> <<0, 0, 0>>, e |-> 0]

\* the number of binary digits of the integer q, 0 < q < 2^31
BitLength(q) == CHOOSE w \in 1..31 : q \div 2^(w - 1) = 1

\* limb i of the number L (18-bit limbs, least significant first)
Limb(L, i) == IF i \in 1..Len(L) THEN L[i] ELSE 0

\* binary digit p of L, digit 0 the least significant
Bit(L, p) == (Limb(L, p \div 18 + 1) \div 2^(p % 18)) % 2

\* some binary digit of L below digit p is 1
LowNonZero(L, p) ==
    \/ \E i \in 1..Min(p \div 18, Len(L)) : L[i] # 0
    \/ Limb(L, p \div 18 + 1) % 2^(p % 18) # 0

\* the cnt low limbs of L shifted right by u binary digits
ShiftRight(L, u, cnt) ==
    [i \in 1..cnt |->
        (Limb(L, u \div 18 + i + 1) % 2^(u % 18)) * 2^(18 - (u % 18))
        + Limb(L, u \div 18 + i) \div 2^(u % 18)]

\* L without its u low digits, as a float whose leading bit has exponent e:
\* rounded up when the digits dropped (and, with sticky, more non-zero digits
\* behind them) are above one half, or are one half and the significand is odd
RoundNearestEven(L, u, sticky, e) ==
    LET m == ShiftRight(L, u, 3)
        up == Bit(L, u - 1) = 1 /\ (sticky \/ LowNonZero(L, u - 1) \/ m[1] % 2 = 1)
        lo == m[1] + 1
        mid == m[2] + lo \div 2^18
        hi == m[3] + mid \div 2^18
    IN  IF ~up
        THEN [m |-> m, e |-> e]
        ELSE IF hi = 2^17
        THEN [m |-> <<0, 0, 2^16>>, e |-> e + 1]
        ELSE [m |-> <<lo % 2^18, mid % 2^18, hi>>, e |-> e]

\* k more binary digits q of the long division of r by d, r < d, and the
\* remainder left; no step leaves the 32-bit ints
RECURSIVE LongDivision(_, _, _)
LongDivision(r, d, k) ==
    IF k = 0
    THEN [q |-> 0, r |-> r]
    ELSE LET h == LongDivision(r, d, k - 1)
         IN  IF h.r >= d - h.r
             THEN [q |-> 2 * h.q + 1, r |-> h.r - (d - h.r)]
             ELSE [q |-> 2 * h.q, r |-> 2 * h.r]

\* nine more binary digits of r / d, at once where r * 2^9 is a 32-bit int
Digits9(r, d) ==
    IF r = 0
    THEN [q |-> 0, r |-> 0]
    ELSE IF d <= 2^22
    THEN [q |-> (r * 2^9) \div d, r |-> (r * 2^9) % d]
    ELSE LongDivision(r, d, 9)

\* the float n / d of two ints, 0 <= n < 2^31, 0 < d < 2^30: the quotient q
\* (of n scaled by 2^k to reach d) and 54 digits of long division behind it,
\* rounded
TrueDiv(n, d) ==
    IF n = 0
    THEN ZeroFloat
    ELSE LET k == IF n >= d THEN 0
                  ELSE CHOOSE k \in 1..30 :
                           /\ (d + 2^k - 1) \div 2^k <= n
                           /\ (d + 2^(k - 1) - 1) \div 2^(k - 1) > n
             q == (n * 2^k) \div d
             f1 == Digits9((n * 2^k) % d, d)
             f2 == Digits9(f1.r, d)
             f3 == Digits9(f2.r, d)
             f4 == Digits9(f3.r, d)
             f5 == Digits9(f4.r, d)
             f6 == Digits9(f5.r, d)
             digits == <<f5.q * 2^9 + f6.q, f3.q * 2^9 + f4.q, f1.q * 2^9 + f2.q,
                         q % 2^18, q \div 2^18>>
         IN  RoundNearestEven(digits, BitLength(q) + 1, f6.r > 0, BitLength(q) - 1 - k)

\* 100 times the significand m, exact, on four limbs
Times100Limbs(m) ==
    LET low == 100 * m[1]
        mid == 100 * m[2] + low \div 2^18
        top == 100 * m[3] + mid \div 2^18
    IN  <<low % 2^18, mid % 2^18, top % 2^18, top \div 2^18>>

\* the float f * 100
Times100(f) ==
    IF f = ZeroFloat
    THEN ZeroFloat
    ELSE LET p == Times100Limbs(f.m)
             u == 36 + BitLength(p[4] * 2^18 + p[3]) - 53
         IN  RoundNearestEven(p, u, FALSE, f.e + u)

\* the float (n / d) * 100; ok is FALSE for ZeroDivisionError
Percent(n, d) ==
    IF d = 0
    THEN [float |-> ZeroFloat, ok |-> FALSE]
    ELSE [float |-> Times100(TrueDiv(n, d)), ok |-> TRUE]

\* the int 0 of the else branches
Zero == [float |-> ZeroFloat, ok |-> TRUE]

\* GuardedPercent without the guard
UnguardedPercent(n, d) == Percent(n, d)

\* "(n / d) * 100 if d > 0 else 0"
GuardedPercent(n, d) == IF d > 0 THEN Percent(n, d) ELSE Zero

\* the decimal digits of the number L (18-bit limbs, least significant
\* first), the most significant first; none for 0
RECURSIVE Decimal(_)
Decimal(L) ==
    IF \A i \in 1..Len(L) : L[i] = 0
    THEN <<>>
    ELSE LET c3 == L[3]
             c2 == (c3 % 10) * 2^18 + L[2]
             c1 == (c2 % 10) * 2^18 + L[1]
         IN  Decimal(<<c1 \div 10, c2 \div 10, c3 \div 10>>) \o <<c1 % 10>>

\* the text of a float to two decimals: the decimal digits of its count of
\* hundredths, at least three of them; the point stands before the last two
ZeroText == <<0, 0, 0>>

\* f"{x:.2f}": the multiple of 0.01 nearest to the float x (to its exact
\* binary value), a tie to the even one.  x is below 2^38, as a ratio of
\* ints below 2^31 is, so 100 * x has frac = 52 - e > 0 binary digits behind
\* the point and less than 2^54 in front of it.
Fmt2(x) ==
    IF ~x.ok
    THEN [digits |-> <<>>, ok |-> FALSE]
    ELSE IF x.float = ZeroFloat
    THEN [digits |-> ZeroText, ok |-> TRUE]
    ELSE LET y == Times100Limbs(x.float.m)
             frac == 52 - x.float.e
             w == ShiftRight(y, frac, 3)
             up == Bit(y, frac - 1) = 1 /\ (LowNonZero(y, frac - 1) \/ w[1] % 2 = 1)
             lo == w[1] + 1
             mid == w[2] + lo \div 2^18
             hi == w[3] + mid \div 2^18
             d == Decimal(IF up THEN <<lo % 2^18, mid % 2^18, hi>> ELSE w)
         IN  [digits |-> [i \in 1..Max(0, 3 - Len(d)) |-> 0] \o d, ok |-> TRUE]

\* one cell of a distribution table:
\* f"{(count / total) * 100:.2f}%" if total > 0 else "0.00%"
Share(count, total) == IF total > 0 THEN Fmt2(Percent(count, total)) ELSE Fmt2(Zero)

SumErrors(e) == e.sub + e.del + e.ins

NotPlaceholder(list) == SelectSeq(list, LAMBDA x : x # PLACEHOLDER)

\* the four rates: arabic_wer, english_wer, arabic_cer, english_cer
DeriveRates(c) ==
    [arabic_wer |-> GuardedPercent(SumErrors(c.arabic_errors), c.arabic_total_ref),
     english_wer |-> GuardedPercent(SumErrors(c.english_errors), c.english_total_ref),
     arabic_cer |-> GuardedPercent(SumErrors(c.arabic_char_errors), c.arabic_total_ch_ref),
     english_cer |-> GuardedPercent(SumErrors(c.english_char_errors), c.english_total_ch_ref)]

\* everything the function computes after its loop: the two returned rates,
\* the rows of the five printed tables and the filtered word lists
Derive(c) ==
    LET rates == DeriveRates(c)
        total_subs == c.substitutions.ar_ar + c.substitutions.ar_en
                      + c.substitutions.en_en + c.substitutions.en_ar
        total_dels == c.deletions.ar + c.deletions.en
        total_ins == c.insertions.ar + c.insertions.en
    IN  [arabic_wer |-> rates.arabic_wer,
         english_wer |-> rates.english_wer,
         arabic_cer |-> rates.arabic_cer,
         english_cer |-> rates.english_cer,
         arabic_data |-> [errors |-> c.arabic_errors, total |-> c.arabic_total_ref,
                          wer |-> Fmt2(rates.arabic_wer), cer |-> Fmt2(rates.arabic_cer)],
         english_data |-> [errors |-> c.english_errors, total |-> c.english_total_ref,
                           wer |-> Fmt2(rates.english_wer), cer |-> Fmt2(rates.english_cer)],
         subs_data |-> [key \in {"ar_ar", "ar_en", "en_en", "en_ar"} |->
                           Share(c.substitutions[key], total_subs)],
         dels_data |-> [key \in {"ar", "en"} |-> Share(c.deletions[key], total_dels)],
         ins_data |-> [key \in {"ar", "en"} |-> Share(c.insertions[key], total_ins)],
         arabic_refs |-> NotPlaceholder(c.arabic_refs),
         english_refs |-> NotPlaceholder(c.english_refs),
         arabic_hyps |-> NotPlaceholder(c.arabic_hyps),
         english_hyps |-> NotPlaceholder(c.english_hyps)]

\* the value of the report variable while nothing has been derived
NoReport == Derive(ZeroCounters)

(***************************************************************************)
(* The inputs: a word_output is the references, the hypotheses and the     *)
(* alignments of a corpus.  A well-formed one is put together from units,  *)
(* one alignment operation each with the tokens it covers; its chunks are  *)
(* then contiguous, ordered and cover both sentences.                      *)
(***************************************************************************)
Unit(type, ref, hyp) == [type |-> type, ref |-> ref, hyp |-> hyp]

Units ==
    {Unit("equal", <<t>>, <<t>>) : t \in {TokCat, TokMar, PLACEHOLDER}}
    \cup {Unit("substitute", <<TokCat>>, <<TokCar>>),
          Unit("substitute", <<TokCat>>, <<TokMar>>),
          Unit("substitute", <<TokMar>>, <<TokCat>>),
          Unit("substitute", <<TokMar>>, <<TokMarh>>),
          Unit("substitute", <<TokCat, TokMar>>, <<TokCar>>),
          Unit("substitute", <<TokMar>>, <<TokCat, TokCar>>)}
    \cup {Unit("delete", <<t>>, <<>>) : t \in {TokCat, TokMar}}
    \cup {Unit("insert", <<>>, <<t>>) : t \in {TokCar, TokMar}}

Chunk(type, rs, re, hs, he) ==
    [type |-> type, ref_start_idx |-> rs, ref_end_idx |-> re,
     hyp_start_idx |-> hs, hyp_end_idx |-> he]

\* the chunks of a sequence of units that starts at the token offsets ro, ho
RECURSIVE UnitChunks(_, _, _)
UnitChunks(us, ro, ho) ==
    IF us = <<>>
    THEN <<>>
    ELSE LET u == Head(us)
         IN  <<Chunk(u.type, ro, ro + Len(u.ref), ho, ho + Len(u.hyp))>>
             \o UnitChunks(Tail(us), ro + Len(u.ref), ho + Len(u.hyp))

\* neighbouring chunks of one type joined into one (a chunk is then a maximal
\* run of its operation)
RECURSIVE MergeChunks(_)
MergeChunks(cs) ==
    IF Len(cs) < 2
    THEN cs
    ELSE IF cs[1].type = cs[2].type
    THEN MergeChunks(<<Chunk(cs[1].type, cs[1].ref_start_idx, cs[2].ref_end_idx,
                             cs[1].hyp_start_idx, cs[2].hyp_end_idx)>>
                     \o Tail(Tail(cs)))
    ELSE <<Head(cs)>> \o MergeChunks(Tail(cs))

\* the units us cut into sentences of the lengths lens
RECURSIVE Split(_, _)
Split(us, lens) ==
    IF lens = <<>>
    THEN <<>>
    ELSE <<[j \in 1..Head(lens) |-> us[j]]>>
         \o Split([j \in 1..(Len(us) - Head(lens)) |-> us[Head(lens) + j]], Tail(lens))

WordOutput(refs, hyps, aligns) ==
    [references |-> refs, hypotheses |-> hyps, alignments |-> aligns]

BuildWordOutput(us, lens, merge) ==
    LET sents == Split(us, lens)
    IN  WordOutput(
            [i \in 1..Len(sents) |-> Flatten([j \in 1..Len(sents[i]) |-> sents[i][j].ref])],
            [i \in 1..Len(sents) |-> Flatten([j \in 1..Len(sents[i]) |-> sents[i][j].hyp])],
            [i \in 1..Len(sents) |->
                IF merge THEN MergeChunks(UnitChunks(sents[i], 0, 0))
                ELSE UnitChunks(sents[i], 0, 0)])

\* the ways to cut n units into at most MaxSent sentences
Cuts(n) == {l \in SeqsUpTo(0..n, MaxSent) : SumSeq(l) = n}

\* w is a well-formed input of at most n units in all
IsWellFormed(w, n) ==
    \E us \in SeqsUpTo(Units, n) :
        \E lens \in Cuts(Len(us)) :
            \E merge \in BOOLEAN :
                w = BuildWordOutput(us, lens, merge)

DropLast(s) == [j \in 1..(Len(s) - 1) |-> s[j]]

\* w with ch in place of the first chunk of its first alignment
WithFirstChunk(w, ch) ==
    [w EXCEPT !.alignments[1][1] = ch]

\* structurally invalid inputs made of a well-formed one: one of the three
\* sequences a sentence short, or the first chunk with a negative start, an
\* end past the sentence, or start and end exchanged
Malformed(w) ==
    (IF Len(w.references) > 0
     THEN {[w EXCEPT !.references = DropLast(@)],
           [w EXCEPT !.hypotheses = DropLast(@)],
           [w EXCEPT !.alignments = DropLast(@)]}
     ELSE {})
    \cup
    (IF Len(w.alignments) > 0 /\ Len(w.alignments[1]) > 0
     THEN LET ch == w.alignments[1][1]
          IN  {WithFirstChunk(w, [ch EXCEPT !.ref_start_idx = @ - 1]),
               WithFirstChunk(w, [ch EXCEPT !.hyp_start_idx = @ - 1]),
               WithFirstChunk(w, [ch EXCEPT !.ref_end_idx = Len(w.references[1]) + 1]),
               WithFirstChunk(w, [ch EXCEPT !.hyp_end_idx = Len(w.hypotheses[1]) + 1]),
               WithFirstChunk(w, [ch EXCEPT !.ref_start_idx = ch.ref_end_idx,
                                            !.ref_end_idx = ch.ref_start_idx,
                                            !.hyp_start_idx = ch.hyp_end_idx,
                                            !.hyp_end_idx = ch.hyp_start_idx])}
     ELSE {})

\* w is an input: a well-formed one, or a structurally invalid one
IsInput(w) ==
    \/ IsWellFormed(w, MaxUnits)
    \/ \E us \in SeqsUpTo(Units, MaxUnits - 1) :
           \E lens \in Cuts(Len(us)) :
               \E merge \in BOOLEAN :
                   w \in Malformed(BuildWordOutput(us, lens, merge))

(***************************************************************************)
(* The state machine: show_per_lang_measures on one word_output.           *)
(***************************************************************************)
VARIABLES
    word_output,          \* the argument of show_per_lang_measures
    pc,                   \* "align", "calc", "done", or "raised" (IndexError)
    aligned_refs,         \* what align_word_output returned
    aligned_hyps,
    counters,             \* the counters of the accumulation loop
    pos,                  \* the number of positions the loop has processed
    report                \* the values derived after the loop

vars == <<word_output, pc, aligned_refs, aligned_hyps, counters, pos, report>>

Init ==
    /\ IsInput(word_output)
    /\ pc = "align"
    /\ aligned_refs = <<>>
    /\ aligned_hyps = <<>>
    /\ counters = ZeroCounters
    /\ pos = 0
    /\ report = NoReport

\* aligned_refs, aligned_hyps = align_word_output(word_output), and the
\* declarations that open calculate_language_measures_with_detailed_tables
Align ==
    /\ pc = "align"
    /\ LET r == align_word_output(word_output.references, word_output.hypotheses,
                                  word_output.alignments)
       IN  IF r.ok
           THEN /\ aligned_refs' = r.aligned_references
                /\ aligned_hyps' = r.aligned_hypotheses
                /\ pc' = "calc"
           ELSE /\ pc' = "raised"
                /\ UNCHANGED <<aligned_refs, aligned_hyps>>
    /\ counters' = ZeroCounters
    /\ UNCHANGED <<word_output, pos, report>>

\* one iteration of the nested zip loops
Step ==
    /\ pc = "calc"
    /\ LET pairs == Pairs(aligned_refs, aligned_hyps)
       IN  /\ pos < Len(pairs)
           /\ counters' = ProcessPosition(counters, pairs[pos + 1].ref_p, pairs[pos + 1].hyp_p)
    /\ pos' = pos + 1
    /\ UNCHANGED <<word_output, pc, aligned_refs, aligned_hyps, report>>

\* the loops are over: rates, tables, return
Finish ==
    /\ pc = "calc"
    /\ pos = Len(Pairs(aligned_refs, aligned_hyps))
    /\ report' = Derive(counters)
    /\ pc' = "done"
    /\ UNCHANGED <<word_output, aligned_refs, aligned_hyps, counters, pos>>

Next == Align \/ Step \/ Finish

Spec == Init /\ [][Next]_vars

(***************************************************************************)
(* What the data model asks of an input.                                   *)
(***************************************************************************)
EqualLengths(w) ==
    /\ Len(w.references) = Len(w.hypotheses)
    /\ Len(w.references) = Len(w.alignments)

\* both ranges of the chunk are monotonic and inside the sentence
ChunkInRange(ch, ref, hyp) ==
    /\ 0 <= ch.ref_start_idx /\ ch.ref_start_idx <= ch.ref_end_idx
    /\ ch.ref_end_idx <= Len(ref)
    /\ 0 <= ch.hyp_start_idx /\ ch.hyp_start_idx <= ch.hyp_end_idx
    /\ ch.hyp_end_idx <= Len(hyp)

\* the range lengths the operation kind allows
ChunkShape(ch) ==
    /\ ch.type = "equal" =>
          ch.ref_end_idx - ch.ref_start_idx = ch.hyp_end_idx - ch.hyp_start_idx
    /\ ch.type = "delete" => ch.hyp_start_idx = ch.hyp_end_idx
    /\ ch.type = "insert" => ch.ref_start_idx = ch.ref_end_idx

\* the chunks are contiguous, ordered and cover both token ranges
Covering(alignment, ref, hyp) ==
    /\ \A j \in 1..Len(alignment) :
          /\ ChunkInRange(alignment[j], ref, hyp)
          /\ ChunkShape(alignment[j])
          /\ alignment[j].ref_start_idx = (IF j = 1 THEN 0 ELSE alignment[j - 1].ref_end_idx)
          /\ alignment[j].hyp_start_idx = (IF j = 1 THEN 0 ELSE alignment[j - 1].hyp_end_idx)
    /\ Len(ref) = (IF alignment = <<>> THEN 0 ELSE alignment[Len(alignment)].ref_end_idx)
    /\ Len(hyp) = (IF alignment = <<>> THEN 0 ELSE alignment[Len(alignment)].hyp_end_idx)

ValidSentence(w, i) == Covering(w.alignments[i], w.references[i], w.hypotheses[i])

ValidInput(w) ==
    /\ EqualLengths(w)
    /\ \A i \in 1..Len(w.references) : ValidSentence(w, i)

\* the three sequences differ in length, or some chunk has an out-of-range,
\* negative or non-monotonic index range
StructurallyInvalid(w) ==
    \/ ~EqualLengths(w)
    \/ \E i \in 1..Len(w.alignments) :
          \E j \in 1..Len(w.alignments[i]) :
              ~ChunkInRange(w.alignments[i][j], w.references[i], w.hypotheses[i])

Expanded == pc \in {"calc", "done"}

\* the positions the accumulation loop has gone through so far
Processed == SubSeq(Pairs(aligned_refs, aligned_hyps), 1, pos)

Count(seq, Test(_)) == Cardinality({j \in 1..Len(seq) : Test(seq[j])})

\* the contents of the entries of a stream that carry one of the tags
Contents(stream, tags) ==
    LET kept == SelectSeq(stream, LAMBDA e : e[2] \in tags)
    IN  [j \in 1..Len(kept) |-> kept[j][1]]

TotalRefTokens == SumSeq([i \in 1..Len(word_output.references) |->
                            Len(word_output.references[i])])

TotalRefChars == SumSeq([i \in 1..Len(word_output.references) |->
                           SumSeq([j \in 1..Len(word_output.references[i]) |->
                                      Len(word_output.references[i][j])])])

SameLengthStreams ==
    \A i \in 1..Len(aligned_refs) : Len(aligned_refs[i]) = Len(aligned_hyps[i])

(***************************************************************************)
(* The claims.                                                             *)
(***************************************************************************)

\* C1: for every valid input (equal-length corpora, chunks contiguous, ordered
\* and covering, a substitute chunk free to span reference and hypothesis
\* ranges of different lengths) the aligned reference stream and the aligned
\* hypothesis stream of every sentence have the same length.
C1_LengthInvariant ==
    (Expanded /\ ValidInput(word_output)) => SameLengthStreams

\* C2: the per-language WER the function returns is
\* 100 * (sub + del + ins) / reference_word_count, ins being the number of
\* insert positions whose hypothesis token is of that language, and 0 when the
\* language has no reference word.
InsertPositions(lang) ==
    Count(Processed, LAMBDA p : p.hyp_p[2] = "insert" /\ Lang(p.hyp_p[1]) = lang)

WerIs(wer, errors, lang, total) ==
    IF total = 0
    THEN wer = Zero
    ELSE wer = Percent(errors.sub + errors.del + InsertPositions(lang), total)

C2_WerCountsInsertions ==
    (pc = "done" /\ ValidInput(word_output) /\ SameLengthStreams) =>
        /\ WerIs(report.arabic_wer, counters.arabic_errors, "ar", counters.arabic_total_ref)
        /\ WerIs(report.english_wer, counters.english_errors, "en", counters.english_total_ref)

\* C3: on a structurally invalid input (the three sequences differ in length,
\* or a chunk has an out-of-range, negative or non-monotonic index range) the
\* expander fails and returns no aligned streams.
C3_FailsFast ==
    StructurallyInvalid(word_output) => pc \in {"align", "raised"}

\* C4: after the accumulation of the expanded corpus of a valid input, the
\* four substitution confusion entries sum to the number of alignment
\* positions of the corpus tagged substitute (the entries so tagged of the
\* aligned reference streams, which are as many as those of the aligned
\* hypothesis streams), and to arabic_errors["sub"] + english_errors["sub"].
SubstitutionsTotal ==
    counters.substitutions.ar_ar + counters.substitutions.ar_en
    + counters.substitutions.en_en + counters.substitutions.en_ar

Substitutes(streams) == Count(Flatten(streams), LAMBDA e : e[2] = "substitute")

C4_ConfusionSum ==
    (pc = "done" /\ ValidInput(word_output)) =>
        /\ SubstitutionsTotal = Substitutes(aligned_refs)
        /\ SubstitutionsTotal = Substitutes(aligned_hyps)
        /\ SubstitutionsTotal = counters.arabic_errors.sub + counters.english_errors.sub

\* C5: for every sentence whose chunks are contiguous, ordered and covering,
\* the entries of the aligned reference stream tagged equal, substitute or
\* delete are the reference tokens in their order, the entries of the aligned
\* hypothesis stream tagged equal, substitute or insert are the hypothesis
\* tokens in their order, and every other entry is a placeholder.
C5_Conservation ==
    Expanded =>
        \A i \in 1..Len(aligned_refs) :
            ValidSentence(word_output, i) =>
                /\ Contents(aligned_refs[i], {"equal", "substitute", "delete"})
                       = word_output.references[i]
                /\ Contents(aligned_hyps[i], {"equal", "substitute", "insert"})
                       = word_output.hypotheses[i]
                /\ \A j \in 1..Len(aligned_refs[i]) :
                       aligned_refs[i][j][2] \notin {"equal", "substitute", "delete"}
                           => aligned_refs[i][j] = <<PLACEHOLDER, "insert">>
                /\ \A j \in 1..Len(aligned_hyps[i]) :
                       aligned_hyps[i][j][2] \notin {"equal", "substitute", "insert"}
                           => aligned_hyps[i][j] = <<PLACEHOLDER, "delete">>

C5_Witness ==
    /\ Expanded
    /\ Len(aligned_refs) = 1
    /\ ValidSentence(word_output, 1)
    /\ Len(word_output.alignments[1]) = 2
    /\ aligned_refs[1][1][2] = "delete"
    /\ aligned_hyps[1][1] = <<PLACEHOLDER, "delete">>
    /\ aligned_refs[1][2] = <<PLACEHOLDER, "insert">>
    /\ aligned_hyps[1][2][2] = "insert"

\* C6: whatever the tokens are (a reference word may read "placeholder"), each
\* reference token adds 1 to the reference word count and its length to the
\* reference character count of one language, so the two word counts add up to
\* the number of reference tokens of the corpus.
C6_EveryReferenceTokenCounted ==
    (pc = "done" /\ ValidInput(word_output) /\ SameLengthStreams) =>
        /\ counters.arabic_total_ref + counters.english_total_ref = TotalRefTokens
        /\ counters.arabic_total_ch_ref + counters.english_total_ch_ref = TotalRefChars

\* C7: accumulation ends without a division by zero, and every derived ratio
\* whose denominator is 0 (per-language WER and CER, each substitution,
\* deletion and insertion percentage) is 0.
RatioCells ==
    {report.arabic_wer.ok, report.english_wer.ok, report.arabic_cer.ok, report.english_cer.ok,
     report.arabic_data.wer.ok, report.arabic_data.cer.ok,
     report.english_data.wer.ok, report.english_data.cer.ok}
    \cup {report.subs_data[key].ok : key \in DOMAIN report.subs_data}
    \cup {report.dels_data[key].ok : key \in DOMAIN report.dels_data}
    \cup {report.ins_data[key].ok : key \in DOMAIN report.ins_data}

C7_ZeroDenominators ==
    pc = "done" =>
        /\ RatioCells = {TRUE}
        /\ counters.arabic_total_ref = 0 =>
              report.arabic_wer = Zero /\ report.arabic_data.wer.digits = ZeroText
        /\ counters.english_total_ref = 0 =>
              report.english_wer = Zero /\ report.english_data.wer.digits = ZeroText
        /\ counters.arabic_total_ch_ref = 0 =>
              report.arabic_cer = Zero /\ report.arabic_data.cer.digits = ZeroText
        /\ counters.english_total_ch_ref = 0 =>
              report.english_cer = Zero /\ report.english_data.cer.digits = ZeroText
        /\ SubstitutionsTotal = 0 =>
              \A key \in DOMAIN report.subs_data : report.subs_data[key].digits = ZeroText
        /\ counters.deletions.ar + counters.deletions.en = 0 =>
              \A key \in DOMAIN report.dels_data : report.dels_data[key].digits = ZeroText
        /\ counters.insertions.ar + counters.insertions.en = 0 =>
              \A key \in DOMAIN report.ins_data : report.ins_data[key].digits = ZeroText

C7_Witness ==
    /\ pc = "done"
    /\ counters.arabic_total_ref = 0
    /\ counters.english_total_ref > 0
    /\ counters.english_errors.del > 0
    /\ SubstitutionsTotal = 0
    /\ counters.insertions.ar + counters.insertions.en = 0

\* C8: the counters and the derived WER / CER do not depend on the order of
\* the sentences, and each counter of a corpus is the sum of the counters of
\* its sentences accumulated alone.
Numbers(c) ==
    <<c.arabic_errors.sub, c.arabic_errors.del, c.arabic_errors.ins,
      c.english_errors.sub, c.english_errors.del, c.english_errors.ins,
      c.arabic_char_errors.sub, c.arabic_char_errors.del, c.arabic_char_errors.ins,
      c.english_char_errors.sub, c.english_char_errors.del, c.english_char_errors.ins,
      c.substitutions.ar_ar, c.substitutions.ar_en,
      c.substitutions.en_en, c.substitutions.en_ar,
      c.deletions.ar, c.deletions.en, c.insertions.ar, c.insertions.en,
      c.arabic_total_ref, c.english_total_ref,
      c.arabic_total_ch_ref, c.english_total_ch_ref>>

Rates(r) == <<r.arabic_wer, r.english_wer, r.arabic_cer, r.english_cer>>

Reordered(stream, perm) == [i \in 1..Len(stream) |-> stream[perm[i]]]

AccumulatedAlone(i) ==
    Numbers(Accumulate(ZeroCounters, Pairs(<<aligned_refs[i]>>, <<aligned_hyps[i]>>)))

C8_OrderIndependent ==
    pc = "done" =>
        /\ \A perm \in Permutations(1..Len(aligned_refs)) :
              LET c == Accumulate(ZeroCounters,
                                  Pairs(Reordered(aligned_refs, perm),
                                        Reordered(aligned_hyps, perm)))
              IN  /\ Numbers(c) = Numbers(counters)
                  /\ Rates(DeriveRates(c)) = Rates(report)
        /\ \A f \in 1..Len(Numbers(counters)) :
              Numbers(counters)[f]
                  = SumSeq([i \in 1..Len(aligned_refs) |-> AccumulatedAlone(i)[f]])

C8_Witness ==
    /\ pc = "done"
    /\ Len(aligned_refs) = 2
    /\ aligned_refs[1] # aligned_refs[2]
    /\ \E f \in 1..12 : AccumulatedAlone(1)[f] > 0
    /\ \E f \in 1..12 : AccumulatedAlone(2)[f] > 0 /\ AccumulatedAlone(1)[f] = 0

\* C9: at a substitute position with reference token r and hypothesis token
\* h, the character error counter of r's language, and of no other, grows by
\* sub: the indices below min(len(r), len(h)) where r and h differ,
\* del: max(0, len(r) - len(h)), ins: max(0, len(h) - len(r)).
CharDelta(r, h) ==
    [sub |-> Cardinality({i \in 1..Min(Len(r), Len(h)) : r[i] # h[i]}),
     del |-> Max(0, Len(r) - Len(h)),
     ins |-> Max(0, Len(h) - Len(r))]

Plus(e, d) == [sub |-> e.sub + d.sub, del |-> e.del + d.del, ins |-> e.ins + d.ins]

Current == Pairs(aligned_refs, aligned_hyps)[pos + 1]

C9_Step ==
    (Step /\ Current.ref_p[2] = "substitute") =>
        LET r == Current.ref_p[1]
            h == Current.hyp_p[1]
        IN  IF is_arabic(r)
            THEN /\ counters'.arabic_char_errors
                        = Plus(counters.arabic_char_errors, CharDelta(r, h))
                 /\ counters'.english_char_errors = counters.english_char_errors
            ELSE /\ counters'.english_char_errors
                        = Plus(counters.english_char_errors, CharDelta(r, h))
                 /\ counters'.arabic_char_errors = counters.arabic_char_errors

C9_SubstituteCharacters == [][C9_Step]_vars

\* "cat" against "car" has been accumulated: one character substitution
C9_Witness ==
    /\ pc = "calc"
    /\ pos = 1
    /\ Processed[1].ref_p = <<TokCat, "substitute">>
    /\ Processed[1].hyp_p = <<TokCar, "substitute">>
    /\ counters.english_char_errors = [sub |-> 1, del |-> 0, ins |-> 0]
    /\ counters.arabic_char_errors = NoErrors

\* C10: an insert position (placeholder on the reference side, the token on
\* the hypothesis side) adds 1 to the insertion count of the hypothesis token's
\* language and leaves the reference word and character counts, the sub and
\* del counters, the character error counters and the confusion matrix as they
\* were; a language with insertions and no reference word has WER 0.
C10_Step ==
    (Step /\ Current.ref_p = <<PLACEHOLDER, "insert">> /\ Current.hyp_p[2] = "insert") =>
        /\ counters'.insertions
              = [counters.insertions EXCEPT ![Lang(Current.hyp_p[1])] = @ + 1]
        /\ counters'.arabic_total_ref = counters.arabic_total_ref
        /\ counters'.english_total_ref = counters.english_total_ref
        /\ counters'.arabic_total_ch_ref = counters.arabic_total_ch_ref
        /\ counters'.english_total_ch_ref = counters.english_total_ch_ref
        /\ counters'.arabic_errors.sub = counters.arabic_errors.sub
        /\ counters'.arabic_errors.del = counters.arabic_errors.del
        /\ counters'.english_errors.sub = counters.english_errors.sub
        /\ counters'.english_errors.del = counters.english_errors.del
        /\ counters'.arabic_char_errors = counters.arabic_char_errors
        /\ counters'.english_char_errors = counters.english_char_errors
        /\ counters'.substitutions = counters.substitutions
        /\ counters'.deletions = counters.deletions

C10_InsertedOnly ==
    (pc = "done" /\ counters.insertions.ar > 0 /\ counters.arabic_total_ref = 0
        => report.arabic_wer = Zero)
    /\ (pc = "done" /\ counters.insertions.en > 0 /\ counters.english_total_ref = 0
        => report.english_wer = Zero)

C10_InsertFrame == [][C10_Step]_vars /\ []C10_InsertedOnly

\* one English word matched, one Arabic word inserted
C10_Witness ==
    /\ pc = "done"
    /\ counters.insertions.ar = 1
    /\ counters.arabic_total_ref = 0
    /\ counters.english_total_ref = 1
    /\ report.arabic_wer = Zero

====
